---- MODULE Spec2Model ----
(***************************************************************************)
(* The KYC scoring pipeline of backend/main.py: feature extraction, the    *)
(* optional selector and scaler stages, the classifier with its fallback   *)
(* table, risk bucketing, and the audit log written by the verify handler. *)
(*                                                                         *)
(* Numbers.  Every float of the program is kept in hundredths: 0.33 is 33, *)
(* 1.0 is 100, the percentage 50.0 is 5000.  NaN is a value of its own,    *)
(* for which every ordering comparison is false, as in Python.             *)
(*                                                                         *)
(* Strings.  A Python str whose characters are read (name, document        *)
(* number, address, a CSV cell) is a sequence of one-character strings.    *)
(* A str that is only compared as a whole (the document type) is a string. *)
(***************************************************************************)
EXTENDS Integers, Sequences, FiniteSets, TLC

\* ------------------------------------------------------------------ bounds
\* Number of verify calls that can be in progress at once.
NumCalls == 2
\* Widest output row (number of columns) the classifier stub returns.
MaxCols == 4
\* Last reading of the wall clock, in ticks of half a millisecond.
MaxTime == 2

\* ------------------------------------------------- literals of the program
\* 0.33 in "if prob < 0.33"
LowThreshold == 33
\* 0.67 in "elif prob < 0.67"
HighThreshold == 67
\* 0.50, the neutral default gnn_pred returns
NeutralDefault == 50
\* 0.0 and 1.0 in "max(0.0, min(1.0, prob))", and the 1 of "1 - prob"
Zero == 0
One == 100
\* the factor 100 in "prob * 100" and "(1 - prob) * 100"
Percent == 100

\* float('nan'): an integer outside the range of every number the model
\* computes; Lt and Gt below never let it compare.
NaN == 0 - 1000000

Lt(a, b) == a # NaN /\ b # NaN /\ a < b
Gt(a, b) == a # NaN /\ b # NaN /\ a > b
\* Python's two-argument min and max: the first argument is kept unless the
\* second compares strictly below (above) it.
PyMin(a, b) == IF Lt(b, a) THEN b ELSE a
PyMax(a, b) == IF Gt(b, a) THEN b ELSE a

\* ------------------------------------------------------------- characters
Digits == {"0", "1", "2", "3", "4", "5", "6", "7", "8", "9"}
Upper == {"A", "B", "C", "D", "E", "F", "G", "H", "I", "J", "K", "L", "M",
          "N", "O", "P", "Q", "R", "S", "T", "U", "V", "W", "X", "Y", "Z"}
Whitespace == {" ", "\t", "\n"}
DigitChars == <<"0", "1", "2", "3", "4", "5", "6", "7", "8", "9">>

\* None, for the Optional[str] address: a sequence no str can equal, since
\* its one element is not a single character.
None == <<"None">>

\* str.isdigit(): at least one character, and all of them digits
isdigit(s) == Len(s) > 0 /\ \A i \in 1..Len(s) : s[i] \in Digits
\* len(set(s))
distinct_chars(s) == Cardinality({s[i] : i \in 1..Len(s)})
\* len(s.split()): the number of maximal runs of non-whitespace
word_count(s) ==
    Cardinality({i \in 1..Len(s) :
        /\ s[i] \notin Whitespace
        /\ (i = 1 \/ s[i - 1] \in Whitespace)})
any_upper(s) == \E i \in 1..Len(s) : s[i] \in Upper
any_digit(s) == \E i \in 1..Len(s) : s[i] \in Digits
Bit(b) == IF b THEN 1 ELSE 0

\* str(n) of a non-negative int: decimal digits, no leading zeros
RECURSIVE IntToStr(_)
IntToStr(n) ==
    IF n < 10 THEN <<DigitChars[n + 1]>>
    ELSE IntToStr(n \div 10) \o <<DigitChars[(n % 10) + 1]>>

DigitValue(c) == CHOOSE d \in 0..9 : DigitChars[d + 1] = c
\* int(s) of a string of digits: leading zeros are lost
RECURSIVE StrToInt(_)
StrToInt(s) ==
    IF Len(s) = 0 THEN 0
    ELSE 10 * StrToInt(SubSeq(s, 1, Len(s) - 1)) + DigitValue(s[Len(s)])

\* ------------------------------------------------------ feature extraction
\* The mutant leaves PASSPORT out of the third one-hot position.
extract_features_no_passport(name, doc, address, dtype) ==
    << Len(name), Len(doc), Len(address), Bit(isdigit(doc)),
       distinct_chars(doc),
       Bit(dtype = "AADHAR"), Bit(dtype = "PAN"), Bit(dtype = "UTILITY"),
       word_count(address), word_count(name),
       Bit(any_upper(name)), Bit(any_digit(name)) >>

extract_features(name, doc, address, dtype) ==
    << Len(name),
       Len(doc),
       Len(address),
       Bit(isdigit(doc)),
       distinct_chars(doc),
       Bit(dtype = "AADHAR"),
       Bit(dtype = "PAN"),
       Bit(dtype \in {"PASSPORT", "UTILITY"}),
       word_count(address),
       word_count(name),
       Bit(any_upper(name)),
       Bit(any_digit(name)) >>

\* ------------------------------------------------------------- risk label
\* The mutant puts the boundary values in the lower bucket.
classify_inclusive(prob) ==
    IF prob <= LowThreshold THEN "Low"
    ELSE IF prob <= HighThreshold THEN "Medium"
    ELSE "High"

classify(prob) ==
    IF Lt(prob, LowThreshold) THEN "Low"
    ELSE IF Lt(prob, HighThreshold) THEN "Medium"
    ELSE "High"

\* The mutant clamps from above only.
clamp_upper_only(prob) == PyMin(One, prob)

\* max(0.0, min(1.0, prob))
clamp(prob) == PyMax(Zero, PyMin(One, prob))

\* ------------------------------------------------------------------- state
VARIABLES
    model,              \* the classifier artifact is loaded (not None)
    scaler,             \* the scaler artifact is loaded
    feature_selector,   \* the selector artifact is loaded
    gnn_df,             \* the fallback table, as load_gnn left it
    audit_log,          \* the file AUDIT_LOG: whether it exists, and its lines
    audit_log_at_start, \* the file AUDIT_LOG as it was before any call
    clients,            \* the verify calls that clients issue
    pc,                 \* where each verify call stands
    request,            \* the VerificationRequest of each call
    stubs,              \* what the opaque artifacts do in each call
    result,             \* what predict_fraud returned to each call
    header,             \* each call's evaluated "not AUDIT_LOG.exists()"
    audit_error,        \* whether the call's audit write raised
    response,           \* the VerificationResponse each call returned
    prediction,         \* the run of predict.py's run_model_prediction
    now,                \* the wall clock, in ticks of half a millisecond
    vid,                \* each call's verification id (the number after VER)
    ts,                 \* each call's timestamp
    audit_attempts      \* how many times each call entered the audit write

vars == << model, scaler, feature_selector, gnn_df, audit_log,
           audit_log_at_start, clients, pc, request, stubs, result, header,
           audit_error, response, prediction, now, vid, ts,
           audit_attempts >>

Calls == 1..NumCalls

\* ------------------------------------------------------------ the requests
JohnDoe ==
    [ name |-> <<"J", "o", "h", "n", " ", "D", "o", "e">>,
      documentNumber |-> <<"1", "2", "3", "4", "5", "6", "7", "8", "9">>,
      address |-> <<"1", "2", "3", " ", "M", "a", "i", "n", " ", "S", "t">>,
      documentType |-> "PASSPORT" ]

Requests ==
    { JohnDoe,
      [ name |-> <<"a", "1">>,
        documentNumber |-> <<"0", "0", "7">>,
        address |-> <<>>,
        documentType |-> "PAN" ],
      [ name |-> <<"Z">>,
        documentNumber |-> <<"A", "B", "1", "2">>,
        address |-> <<"x", " ", "y">>,
        documentType |-> "AADHAR" ],
      [ name |-> <<>>,
        documentNumber |-> <<>>,
        address |-> None,
        documentType |-> "OTHER" ] }

\* ------------------------------------------------------ the fallback table
\* A cell of the GNN_Fraud_Probability column: a number (or NaN), or text
\* that float() rejects.
Num(v) == [num |-> TRUE, v |-> v]
NotANumber == [num |-> FALSE, v |-> 0]

D_123456789 == <<"1", "2", "3", "4", "5", "6", "7", "8", "9">>
D_007 == <<"0", "0", "7">>
D_AB12 == <<"A", "B", "1", "2">>

\* The states of the file GNN_CSV at startup.  columns: the file has the
\* columns Document_Number and GNN_Fraud_Probability.
CsvFiles ==
    { [state |-> "missing", columns |-> FALSE, lines |-> <<>>],
      [state |-> "unreadable", columns |-> FALSE, lines |-> <<>>],
      [state |-> "ok", columns |-> TRUE, lines |-> <<>>],
      [state |-> "ok", columns |-> FALSE,
       lines |-> << [doc |-> D_123456789, p |-> Num(90)] >>],
      [state |-> "ok", columns |-> TRUE,
       lines |-> << [doc |-> D_007, p |-> Num(10)],
                    [doc |-> D_123456789, p |-> Num(90)],
                    [doc |-> D_123456789, p |-> Num(20)] >>],
      [state |-> "ok", columns |-> TRUE,
       lines |-> << [doc |-> D_AB12, p |-> Num(150)],
                    [doc |-> D_007, p |-> Num(0 - 20)],
                    [doc |-> D_123456789, p |-> NotANumber],
                    [doc |-> D_123456789, p |-> Num(40)] >>] }

EmptyFrame == [columns |-> FALSE, ints |-> FALSE, rows |-> <<>>]

\* pd.read_csv: a Document_Number column whose cells are all digits is read
\* as integers, any other column keeps the text of its cells.
read_csv(file) ==
    LET ints == \A i \in 1..Len(file.lines) : isdigit(file.lines[i].doc)
    IN  [ columns |-> file.columns,
          ints |-> ints,
          rows |-> [ i \in 1..Len(file.lines) |->
                     [ Document_Number |->
                           IF ints THEN StrToInt(file.lines[i].doc)
                           ELSE file.lines[i].doc,
                       GNN_Fraud_Probability |-> file.lines[i].p ] ] ]

\* df.empty
df_empty(df) == Len(df.rows) = 0

load_gnn(file) ==
    IF file.state = "unreadable" THEN EmptyFrame
    ELSE LET df == read_csv(IF file.state = "missing"
                            THEN [state |-> "ok", columns |-> TRUE, lines |-> <<>>]
                            ELSE file)
         IN  IF df_empty(df) THEN EmptyFrame ELSE df

\* gnn_df["Document_Number"].astype(str), one cell
astype_str(df, cell) == IF df.ints THEN IntToStr(cell) ELSE cell

\* The mutant defaults to 0 when the table has no matching row.
gnn_pred_default_zero(doc) ==
    IF df_empty(gnn_df) \/ ~gnn_df.columns THEN NeutralDefault
    ELSE LET hits == {i \in 1..Len(gnn_df.rows) :
                         astype_str(gnn_df, gnn_df.rows[i].Document_Number) = doc}
         IN  IF hits = {} THEN Zero
             ELSE LET first == CHOOSE i \in hits : \A j \in hits : i <= j
                      cell == gnn_df.rows[first].GNN_Fraud_Probability
                  IN  IF cell.num THEN cell.v ELSE NeutralDefault

gnn_pred(doc) ==
    IF df_empty(gnn_df) THEN NeutralDefault
    \* a frame without the column: KeyError, swallowed by the bare except
    ELSE IF ~gnn_df.columns THEN NeutralDefault
    ELSE LET hits == {i \in 1..Len(gnn_df.rows) :
                         astype_str(gnn_df, gnn_df.rows[i].Document_Number) = doc}
         IN  IF hits = {} THEN NeutralDefault
             ELSE LET first == CHOOSE i \in hits : \A j \in hits : i <= j
                      cell == gnn_df.rows[first].GNN_Fraud_Probability
                  \* float() of text that is no number: ValueError, swallowed
                  IN  IF cell.num THEN cell.v ELSE NeutralDefault

\* ------------------------------------------------- the opaque artifacts
\* What the artifacts do in one call: whether selector.transform and
\* scaler.transform raise, and what model.predict_proba does: it raises, or
\* returns one output row of some number of columns.
SelectorColumns == <<1, 2, 4, 5, 9>>
selector_transform(X) ==
    [i \in 1..Len(SelectorColumns) |-> X[SelectorColumns[i]]]
\* a scaler has one scale and one offset per column
scaler_transform(X) == [i \in 1..Len(X) |-> (i + 1) * X[i] + i]

RawValues == {0 - 20, 0, 32, 33, 34, 50, 66, 67, 68, 100, 150, NaN}
ColumnValues == {20, 70}
OutputRows ==
    {<<>>} \cup {<<v>> : v \in RawValues}
           \cup UNION {[1..k -> ColumnValues] : k \in 2..MaxCols}
ModelOutcomes ==
    {[raises |-> TRUE, row |-> <<>>]}
        \cup {[raises |-> FALSE, row |-> r] : r \in OutputRows}
NoOutcome == [raises |-> FALSE, row |-> <<>>]

\* ----------------------------------------------------------- predict_fraud
\* The mutant scales before it selects.
transform_stages_scaler_first(X, sel_raises, sca_raises) ==
    LET scaled == IF scaler /\ ~sca_raises THEN scaler_transform(X) ELSE X
        selected == IF feature_selector /\ ~sel_raises
                    THEN selector_transform(scaled) ELSE scaled
    IN  [selector_in |-> scaled, scaler_in |-> X, model_in |-> selected]

\* The selector and scaler stages: the vector each stage is handed, and the
\* vector that reaches the scoring step.
transform_stages(X, sel_raises, sca_raises) ==
    LET selected == IF feature_selector /\ ~sel_raises
                    THEN selector_transform(X) ELSE X
        scaled == IF scaler /\ ~sca_raises
                  THEN scaler_transform(selected) ELSE selected
    IN  [selector_in |-> X, scaler_in |-> selected, model_in |-> scaled]

\* The mutant reads the first column of a two-column row.
pick_column_first(row) ==
    IF Len(row) = 2 THEN row[1]
    ELSE IF Len(row) = 1 THEN row[1]
    ELSE row[Len(row)]

\* The column of the output row that is read, by shape[1]
pick_column(row) ==
    IF Len(row) = 2 THEN row[2]
    ELSE IF Len(row) = 1 THEN row[1]
    ELSE row[Len(row)]

\* The mutant scores a row without columns as 0 instead of falling back.
score_no_fallback_on_malformed(doc, outcome) ==
    IF model /\ ~outcome.raises
    THEN [prob |-> IF Len(outcome.row) = 0 THEN Zero ELSE pick_column(outcome.row),
          gnn_called |-> FALSE]
    ELSE [prob |-> gnn_pred(doc), gnn_called |-> TRUE]

\* The scoring step: the raw probability and whether gnn_pred was called.
\* proba_result[0][-1] of a row without columns is an IndexError, caught
\* like an exception of predict_proba.
score(doc, outcome) ==
    IF model /\ ~outcome.raises /\ Len(outcome.row) > 0
    THEN [prob |-> pick_column(outcome.row), gnn_called |-> FALSE]
    ELSE [prob |-> gnn_pred(doc), gnn_called |-> TRUE]

\* The mutant reports the confidence of the unscaled probability.
result_dict_confidence_unscaled(prob, risk) ==
    [ fraud_probability |-> prob * Percent,
      risk_level |-> risk,
      confidence |-> One - prob,
      status |-> IF risk = "High" THEN "Flagged" ELSE "Verified" ]

\* The dict predict_fraud returns
result_dict(prob, risk) ==
    [ fraud_probability |-> prob * Percent,
      risk_level |-> risk,
      confidence |-> (One - prob) * Percent,
      status |-> IF risk = "High" THEN "Flagged" ELSE "Verified" ]

\* len(address) of a None address raises TypeError, which nothing catches.
predict_fraud_raises(req) == req.address = None

\* predict_fraud: the returned dict, and under "locals" the values the
\* function held on the way.
predict_fraud(req, stub) ==
    LET X == extract_features(req.name, req.documentNumber, req.address,
                              req.documentType)
        st == transform_stages(X, stub.sel_raises, stub.sca_raises)
        sc == score(req.documentNumber, stub.outcome)
        prob == clamp(sc.prob)
        risk == classify(prob)
    IN  [ returned |-> result_dict(prob, risk),
          locals |-> [ features |-> X,
                       selector_in |-> st.selector_in,
                       scaler_in |-> st.scaler_in,
                       model_in |-> st.model_in,
                       raw |-> sc.prob,
                       gnn_called |-> sc.gnn_called,
                       prob |-> prob ] ]

\* ------------------------------------------------------------ the audit log
HeaderLine == [kind |-> "header"]
EarlierRecord ==
    [ kind |-> "record", call |-> 0, Timestamp |-> 0,
      Name |-> <<"o", "l", "d">>,
      ID_Type |-> "PAN", Document_Number |-> D_007,
      Fraud_Risk |-> "Low", Fraud_Probability |-> 0 ]
NoFile == [exists |-> FALSE, lines |-> <<>>]
AuditLogs == {NoFile, [exists |-> TRUE, lines |-> <<HeaderLine, EarlierRecord>>]}

\* The mutant stamps the record with the time of the write.
audit_record_stamped_at_write(c) ==
    [ kind |-> "record", call |-> c,
      Timestamp |-> now,
      Name |-> request[c].name,
      ID_Type |-> request[c].documentType,
      Document_Number |-> request[c].documentNumber,
      Fraud_Risk |-> result[c].returned.risk_level,
      Fraud_Probability |-> result[c].returned.fraud_probability ]

\* The one-row frame verify builds for call c
audit_record(c) ==
    [ kind |-> "record", call |-> c,
      Timestamp |-> ts[c],
      Name |-> request[c].name,
      ID_Type |-> request[c].documentType,
      Document_Number |-> request[c].documentNumber,
      Fraud_Risk |-> result[c].returned.risk_level,
      Fraud_Probability |-> result[c].returned.fraud_probability ]

\* df.to_csv(AUDIT_LOG, mode="a", header=h, index=False): one append of the
\* header line, if asked for, and the record
to_csv(file, record, h) ==
    [ exists |-> TRUE,
      lines |-> file.lines \o (IF h THEN <<HeaderLine>> ELSE <<>>) \o <<record>> ]

\* int(datetime.datetime.now().timestamp() * 1000): whole milliseconds, the
\* half millisecond is cut off
verification_id(t) == t \div 2
\* datetime.datetime.now().isoformat(): microseconds, so no tick is lost
isoformat(t) == t

\* The mutant lets a failed audit write fail the request.
after_audit_propagates(raises) == IF raises THEN "raised" ELSE "done"

\* Where verify goes after the audit try block: the except clause logs a
\* warning and the handler goes on to return its response.
after_audit(raises) == "done"

VerificationResponse(c) ==
    [ status |-> result[c].returned.status,
      id |-> vid[c],
      timestamp |-> ts[c],
      name |-> request[c].name,
      documentNumber |-> request[c].documentNumber,
      fraudProbability |-> result[c].returned.fraud_probability,
      riskLevel |-> result[c].returned.risk_level,
      confidence |-> result[c].returned.confidence ]

\* ------------------------------------------------------------------ startup
NoStub == [sel_raises |-> FALSE, sca_raises |-> FALSE, outcome |-> NoOutcome]
NoRequest == [name |-> <<>>, documentNumber |-> <<>>, address |-> <<>>,
              documentType |-> ""]
NoResult == [returned |-> [risk_level |-> ""]]
NoResponse == [status |-> ""]

NoPrediction == [pc |-> "idle"]

InitCalls ==
    /\ pc = [c \in Calls |-> "idle"]
    /\ request = [c \in Calls |-> NoRequest]
    /\ stubs = [c \in Calls |-> NoStub]
    /\ result = [c \in Calls |-> NoResult]
    /\ header = [c \in Calls |-> FALSE]
    /\ audit_error = [c \in Calls |-> FALSE]
    /\ response = [c \in Calls |-> NoResponse]
    /\ prediction = NoPrediction
    /\ now = 0
    /\ vid = [c \in Calls |-> 0]
    /\ ts = [c \in Calls |-> 0]
    /\ audit_attempts = [c \in Calls |-> 0]

\* After startup_event: any subset of the artifacts loaded, the fallback
\* table loaded from any state of its file, the audit log there or not.
\* One client issues one call.
Init ==
    /\ model \in BOOLEAN
    /\ scaler \in BOOLEAN
    /\ feature_selector \in BOOLEAN
    /\ gnn_df \in {load_gnn(f) : f \in CsvFiles}
    /\ audit_log \in AuditLogs
    /\ audit_log_at_start = audit_log
    /\ clients = {1}
    /\ InitCalls

\* After startup_event with no artifact file found; every client issues its
\* call, and the calls run concurrently.
InitConcurrent ==
    /\ model = FALSE
    /\ scaler = FALSE
    /\ feature_selector = FALSE
    /\ gnn_df \in {load_gnn(f) : f \in CsvFiles}
    /\ audit_log \in AuditLogs
    /\ audit_log_at_start = audit_log
    /\ clients = Calls
    /\ InitCalls

\* ------------------------------------------------------------------- verify
\* verify, lines 252-254: the handler receives a request, calls
\* predict_fraud and reads the clock for the id and the timestamp.
Verify_predict(c) ==
    /\ c \in clients
    /\ pc[c] = "idle"
    /\ \E req \in Requests,
          sel_raises \in (IF feature_selector THEN BOOLEAN ELSE {FALSE}),
          sca_raises \in (IF scaler THEN BOOLEAN ELSE {FALSE}),
          outcome \in (IF model THEN ModelOutcomes ELSE {NoOutcome}) :
          LET stub == [sel_raises |-> sel_raises, sca_raises |-> sca_raises,
                       outcome |-> outcome]
          IN  /\ request' = [request EXCEPT ![c] = req]
              /\ stubs' = [stubs EXCEPT ![c] = stub]
              /\ IF predict_fraud_raises(req)
                 THEN /\ pc' = [pc EXCEPT ![c] = "raised"]
                      /\ UNCHANGED << result, vid, ts >>
                 ELSE /\ pc' = [pc EXCEPT ![c] = "scored"]
                      /\ result' = [result EXCEPT ![c] = predict_fraud(req, stub)]
                      /\ vid' = [vid EXCEPT ![c] = verification_id(now)]
                      /\ ts' = [ts EXCEPT ![c] = isoformat(now)]
    /\ UNCHANGED << model, scaler, feature_selector, gnn_df, audit_log,
                    audit_log_at_start, clients, header, audit_error, response,
                    prediction, now, audit_attempts >>

\* verify, line 264: the argument header=not AUDIT_LOG.exists() is evaluated
\* before to_csv is entered.
Verify_header(c) ==
    /\ pc[c] = "scored"
    /\ header' = [header EXCEPT ![c] = ~audit_log.exists]
    /\ pc' = [pc EXCEPT ![c] = "header_evaluated"]
    /\ UNCHANGED << model, scaler, feature_selector, gnn_df, audit_log,
                    audit_log_at_start, clients, request, stubs, result,
                    audit_error, response, prediction, now, vid, ts,
                    audit_attempts >>

\* verify, lines 264-282: to_csv appends or raises, the except clause
\* swallows the exception, and the response is returned.
Verify_append(c) ==
    /\ pc[c] = "header_evaluated"
    /\ \E raises \in BOOLEAN :
          /\ audit_log' = IF raises THEN audit_log
                          ELSE to_csv(audit_log, audit_record(c), header[c])
          /\ audit_error' = [audit_error EXCEPT ![c] = raises]
          /\ pc' = [pc EXCEPT ![c] = after_audit(raises)]
    /\ audit_attempts' = [audit_attempts EXCEPT ![c] = @ + 1]
    /\ response' = [response EXCEPT ![c] = VerificationResponse(c)]
    /\ UNCHANGED << model, scaler, feature_selector, gnn_df,
                    audit_log_at_start, clients, request, stubs, result, header,
                    prediction, now, vid, ts >>

\* The wall clock advances.
Tick ==
    /\ now < MaxTime
    /\ now' = now + 1
    /\ UNCHANGED << model, scaler, feature_selector, gnn_df, audit_log,
                    audit_log_at_start, clients, pc, request, stubs, result,
                    header, audit_error, response, prediction, vid, ts,
                    audit_attempts >>

Next ==
    \/ \E c \in Calls :
           \/ Verify_predict(c)
           \/ Verify_header(c)
           \/ Verify_append(c)
    \/ Tick

Spec == Init /\ [][Next]_vars
SpecConcurrent == InitConcurrent /\ [][Next]_vars

\* --------------------------------------------------------------- predict.py
\* predict.py is a program of its own: it loads the same three artifact
\* files into its globals model, scaler and selector (here model, scaler and
\* feature_selector) and offers run_model_prediction.

\* predict.extract_features
predict_extract_features(name, doc_number, address, doc_type) ==
    LET doc_map == [AADHAR |-> 0, PAN |-> 1, UTILITY |-> 2]
        known == {"AADHAR", "PAN", "UTILITY"}
        onehot == [i \in 1..3 |->
                      Bit(doc_type \in known /\ doc_map[doc_type] = i - 1)]
    IN  << Len(name), Len(doc_number), Len(address),
           Bit(isdigit(doc_number)),
           distinct_chars(doc_number) >>
        \o onehot
        \o << word_count(address),
              word_count(name),
              Bit(any_upper(name)),
              Bit(any_digit(name)) >>

\* predict.classify_risk, on a percentage: 33 and 66 are 33.00 and 66.00
classify_risk(prob) ==
    IF Lt(prob, 33 * One) THEN "Low"
    ELSE IF Lt(prob, 66 * One) THEN "Medium"
    ELSE "High"

\* What the model object does in a run: it has predict_proba or only
\* predict; the call raises, or returns a row of probabilities or a label.
PredictArgs ==
    [ name : {<<>>, JohnDoe.name},
      doc_number : {D_007, D_AB12, D_123456789},
      address : {<<>>, JohnDoe.address},
      doc_type : {"PASSPORT", "UTILITY", "AADHAR", "PAN", "OTHER"} ]
PredictOutcomes ==
    {[has_proba |-> TRUE, raises |-> TRUE, row |-> <<>>, pred |-> 0]}
        \cup {[has_proba |-> TRUE, raises |-> FALSE, row |-> <<One - p, p>>,
               pred |-> 0] : p \in Zero..One}
        \cup {[has_proba |-> TRUE, raises |-> FALSE, row |-> <<NeutralDefault>>,
               pred |-> 0]}
        \cup {[has_proba |-> FALSE, raises |-> FALSE, row |-> <<>>,
               pred |-> d] : d \in {0, 1}}

\* run_model_prediction raises: a transform raises, the model is None, the
\* model call raises, or the row has no second column.
run_model_prediction_raises(stub) ==
    \/ feature_selector /\ stub.sel_raises
    \/ scaler /\ stub.sca_raises
    \/ ~model
    \/ stub.outcome.raises
    \/ stub.outcome.has_proba /\ Len(stub.outcome.row) < 2

\* The dict run_model_prediction returns.  round(x, 2) changes nothing in
\* numbers kept to two decimals.
run_model_prediction(stub) ==
    LET prob == IF stub.outcome.has_proba
                THEN stub.outcome.row[2] * Percent
                ELSE IF stub.outcome.pred = 1 THEN 80 * One ELSE 20 * One
    IN  [ fraud_probability |-> prob,
          fraud_risk |-> classify_risk(prob),
          confidence |-> Percent * One - prob ]

\* One run of run_model_prediction(name, doc_number, address, doc_type)
Run_model_prediction ==
    /\ prediction.pc = "idle"
    /\ \E args \in PredictArgs,
          sel_raises \in (IF feature_selector THEN BOOLEAN ELSE {FALSE}),
          sca_raises \in (IF scaler THEN BOOLEAN ELSE {FALSE}),
          outcome \in (IF model THEN PredictOutcomes ELSE {NoOutcome}) :
          LET stub == [sel_raises |-> sel_raises, sca_raises |-> sca_raises,
                       outcome |-> outcome]
              X == predict_extract_features(args.name, args.doc_number,
                                            args.address, args.doc_type)
          IN  prediction' =
                  IF run_model_prediction_raises(stub)
                  THEN [pc |-> "raised", args |-> args, stub |-> stub,
                        features |-> X]
                  ELSE [pc |-> "returned", args |-> args, stub |-> stub,
                        features |-> X,
                        returned |-> run_model_prediction(stub)]
    /\ UNCHANGED << model, scaler, feature_selector, gnn_df, audit_log,
                    audit_log_at_start, clients, pc, request, stubs, result,
                    header, audit_error, response, now, vid, ts,
                    audit_attempts >>

\* predict.py at import: any subset of the artifact files is there.  The
\* server is not part of this program.
InitPredict ==
    /\ model \in BOOLEAN
    /\ scaler \in BOOLEAN
    /\ feature_selector \in BOOLEAN
    /\ gnn_df = EmptyFrame
    /\ audit_log = NoFile
    /\ audit_log_at_start = audit_log
    /\ clients = {}
    /\ InitCalls

NextPredict == Run_model_prediction

SpecPredict == InitPredict /\ [][NextPredict]_vars

\* ================================================================== claims
\* predict_fraud has returned to call c
Scored(c) == pc[c] \in {"scored", "header_evaluated", "done"}
RiskLevels == {"Low", "Medium", "High"}
Statuses == {"Verified", "Flagged"}
NonNull(req) == req.address # None

\* C1: a verify call whose request fields are non-null strings never ends in
\* an exception, whatever subset of the artifacts is loaded, whichever of
\* them raise, whatever the fallback table holds and whether or not the
\* audit write raises; what predict_fraud returns and what verify returns
\* carry a risk level in {Low, Medium, High} and a status in {Verified,
\* Flagged}.
C1_VerifyAlwaysReturns ==
    \A c \in Calls :
        (pc[c] # "idle" /\ NonNull(request[c])) =>
            /\ pc[c] # "raised"
            /\ result[c].returned.risk_level \in RiskLevels
            /\ result[c].returned.status \in Statuses
            /\ pc[c] = "done" =>
                   /\ response[c].riskLevel \in RiskLevels
                   /\ response[c].status \in Statuses

\* C1 witness: a call has returned although the selector, the scaler and the
\* classifier all raised, the fallback lookup raised and the audit write
\* raised.
C1_Witness ==
    \E c \in Calls :
        /\ pc[c] = "done"
        /\ feature_selector /\ stubs[c].sel_raises
        /\ scaler /\ stubs[c].sca_raises
        /\ model /\ stubs[c].outcome.raises
        /\ ~df_empty(gnn_df) /\ ~gnn_df.columns
        /\ audit_error[c]
        /\ response[c].riskLevel = "Medium"

\* The fallback is due in call c: no classifier, or predict_proba raised, or
\* its output row has no column to read.
FallbackDue(c) ==
    \/ ~model
    \/ stubs[c].outcome.raises
    \/ Len(stubs[c].outcome.row) = 0

\* C2: the bucketed probability is taken from gnn_pred(documentNumber),
\* clamped, exactly when the classifier is absent, raises, or returns a row
\* without a column; otherwise gnn_pred is not called and the probability is
\* an entry of the classifier's output row, clamped.
C2_FallbackOnlyWithoutClassifier ==
    \A c \in Calls :
        Scored(c) =>
            LET loc == result[c].locals
                row == stubs[c].outcome.row
            IN  /\ loc.gnn_called <=> FallbackDue(c)
                /\ FallbackDue(c) =>
                       loc.prob = clamp(gnn_pred(request[c].documentNumber))
                /\ ~FallbackDue(c) =>
                       \E i \in 1..Len(row) : loc.prob = clamp(row[i])

\* C2 witness: the classifier is loaded and returns a row without columns,
\* and the call is scored 0.90 from the fallback table.
C2_Witness ==
    \E c \in Calls :
        /\ pc[c] = "done"
        /\ model /\ ~stubs[c].outcome.raises /\ stubs[c].outcome.row = <<>>
        /\ result[c].locals.gnn_called
        /\ result[c].locals.prob = 90

\* The rows of the fallback table whose Document_Number, as a string, is doc
MatchingRows(doc) ==
    {i \in 1..Len(gnn_df.rows) :
        astype_str(gnn_df, gnn_df.rows[i].Document_Number) = doc}
FirstMatchingCell(doc) ==
    gnn_df.rows[CHOOSE i \in MatchingRows(doc) :
                    \A j \in MatchingRows(doc) : i <= j].GNN_Fraud_Probability
\* The lookup raises: the frame lacks the column, or the cell is no number.
LookupRaises(doc) ==
    \/ ~gnn_df.columns
    \/ MatchingRows(doc) # {} /\ ~FirstMatchingCell(doc).num

\* C3: gnn_pred returns 0.50 when the table is empty, holds no row whose
\* Document_Number string equals the document number, or the lookup raises,
\* and the probability of the first matching row otherwise; a call without
\* classifier and without entry is bucketed from 0.50: Medium, Verified.
C3_FallbackLookup ==
    \A c \in Calls :
        (Scored(c) /\ result[c].locals.gnn_called) =>
            LET doc == request[c].documentNumber
                loc == result[c].locals
                neutral == \/ df_empty(gnn_df)
                           \/ LookupRaises(doc)
                           \/ MatchingRows(doc) = {}
            IN  /\ neutral => loc.raw = NeutralDefault
                /\ ~neutral => loc.raw = FirstMatchingCell(doc).v
                /\ (~model /\ neutral) =>
                       /\ loc.prob = NeutralDefault
                       /\ result[c].returned.risk_level = "Medium"
                       /\ result[c].returned.status = "Verified"

\* C3 witness: no classifier, and a table read as integers that holds 007 as
\* 7: the document number "007" has no entry and the call is Medium.
C3_Witness ==
    \E c \in Calls :
        /\ pc[c] = "done"
        /\ ~model
        /\ gnn_df.columns /\ gnn_df.ints
        /\ request[c].documentNumber = D_007
        /\ MatchingRows(D_007) = {}
        /\ result[c].locals.raw = NeutralDefault
        /\ result[c].returned.risk_level = "Medium"

\* C4: the scaler is handed the selector's output, or the 12 features
\* unchanged when the selector is absent or raised; the scoring step is
\* handed the scaler's output of that, or that vector unchanged when the
\* scaler is absent or raised; and a call whose stages raise is still
\* scored.
C4_StagesInOrderAndOptional ==
    \A c \in Calls :
        /\ (pc[c] # "idle" /\ NonNull(request[c])) => Scored(c)
        /\ Scored(c) =>
            LET loc == result[c].locals
                selected == feature_selector /\ ~stubs[c].sel_raises
                scaled == scaler /\ ~stubs[c].sca_raises
            IN  /\ Len(loc.features) = 12
                /\ loc.selector_in = loc.features
                /\ loc.scaler_in = IF selected
                                   THEN selector_transform(loc.features)
                                   ELSE loc.features
                /\ loc.model_in = IF scaled
                                  THEN scaler_transform(loc.scaler_in)
                                  ELSE loc.scaler_in

\* C4 witness: the selector raised, the scaler then scaled all 12 features,
\* and the call was scored.
C4_Witness ==
    \E c \in Calls :
        /\ Scored(c)
        /\ feature_selector /\ stubs[c].sel_raises
        /\ scaler /\ ~stubs[c].sca_raises
        /\ Len(result[c].locals.scaler_in) = 12
        /\ result[c].locals.model_in = scaler_transform(result[c].locals.features)
        /\ result[c].locals.model_in # result[c].locals.features

\* The lines appended to the audit log since startup
NewLines ==
    SubSeq(audit_log.lines, Len(audit_log_at_start.lines) + 1,
           Len(audit_log.lines))
HeadersIn(lines) == {i \in 1..Len(lines) : lines[i].kind = "header"}
RecordsIn(lines) == {i \in 1..Len(lines) : lines[i].kind = "record"}

\* C5: once all NumCalls concurrent calls have returned, none with a failed
\* audit write, the log holds exactly one new whole record per call, and
\* one new header line if the log did not exist at startup, none if it did.
C5_AuditLogAfterConcurrentCalls ==
    (\A c \in Calls : pc[c] = "done" /\ ~audit_error[c]) =>
        /\ Cardinality(RecordsIn(NewLines)) = NumCalls
        /\ \A c \in Calls :
               \E i \in RecordsIn(NewLines) : NewLines[i] = audit_record(c)
        /\ Cardinality(HeadersIn(NewLines)) =
               IF audit_log_at_start.exists THEN 0 ELSE 1

Bucket(p) ==
    IF p < LowThreshold THEN "Low"
    ELSE IF p >= LowThreshold /\ p < HighThreshold THEN "Medium"
    ELSE "High"
Rank(risk) == IF risk = "Low" THEN 0 ELSE IF risk = "Medium" THEN 1 ELSE 2

\* C7: classify maps every p of [0,1] to Low below 0.33, Medium from 0.33 to
\* below 0.67 and High from 0.67, never to a lower risk for a higher p; and
\* the status is Flagged exactly when the risk level is High.
C7_Buckets ==
    /\ \A q \in Zero..One : classify(q) = Bucket(q)
    /\ \A c \in Calls :
        Scored(c) =>
            LET p == result[c].locals.prob
                ret == result[c].returned
            IN  /\ ret.risk_level = Bucket(p)
                /\ \A q \in Zero..One :
                       /\ q <= p => Rank(classify(q)) <= Rank(ret.risk_level)
                       /\ q >= p => Rank(classify(q)) >= Rank(ret.risk_level)
                /\ ret.status = "Flagged" <=> ret.risk_level = "High"
                /\ ret.status = "Verified" <=> ret.risk_level # "High"

\* C7 witness: a call bucketed from exactly 0.67 is High and Flagged.
C7_Witness ==
    \E c \in Calls :
        /\ Scored(c)
        /\ result[c].locals.prob = HighThreshold
        /\ result[c].returned.risk_level = "High"
        /\ result[c].returned.status = "Flagged"

\* C8: a raw score below 0 is bucketed as 0 (Low), a raw score above 1 as 1
\* (High, Flagged), a raw score within [0,1] as itself; the bucketed value
\* always lies in [0,1] and the risk level is the bucket of the clamped value.
C8_ClampedBeforeBucketing ==
    \A c \in Calls :
        Scored(c) =>
            LET loc == result[c].locals
                ret == result[c].returned
            IN  /\ loc.prob >= Zero /\ loc.prob <= One
                /\ ret.risk_level = Bucket(loc.prob)
                /\ Lt(loc.raw, Zero) =>
                       loc.prob = Zero /\ ret.risk_level = "Low"
                /\ Gt(loc.raw, One) =>
                       /\ loc.prob = One
                       /\ ret.risk_level = "High"
                       /\ ret.status = "Flagged"
                /\ (loc.raw # NaN /\ loc.raw >= Zero /\ loc.raw <= One) =>
                       loc.prob = loc.raw

\* C8 witness: the fallback table holds -0.20 for the document number, and
\* the call is bucketed as 0, Low.
C8_Witness ==
    \E c \in Calls :
        /\ Scored(c)
        /\ result[c].locals.gnn_called
        /\ result[c].locals.raw = 0 - 20
        /\ result[c].locals.prob = Zero
        /\ result[c].returned.risk_level = "Low"

\* C9 as stated: the features of the John Doe request are
\* [8, 9, 11, 1, 8, 0, 0, 1, 3, 2, 1, 0].
C9_JohnDoeFeaturesAsStated ==
    \A c \in Calls :
        (Scored(c) /\ request[c] = JohnDoe) =>
            result[c].locals.features = <<8, 9, 11, 1, 8, 0, 0, 1, 3, 2, 1, 0>>

\* C9 as amended: the features of the John Doe request are
\* [8, 9, 11, 1, 9, 0, 0, 1, 3, 2, 1, 0]; the fifth element is the number
\* of distinct characters of "123456789", which is 9.
C9_JohnDoeFeatures ==
    \A c \in Calls :
        (Scored(c) /\ request[c] = JohnDoe) =>
            /\ result[c].locals.features = <<8, 9, 11, 1, 9, 0, 0, 1, 3, 2, 1, 0>>
            /\ result[c].locals.features[5] =
                   Cardinality({"1", "2", "3", "4", "5", "6", "7", "8", "9"})

\* C9 witness: a call with the John Doe request has been scored.
C9_Witness ==
    \E c \in Calls :
        /\ Scored(c)
        /\ request[c] = JohnDoe
        /\ Len(result[c].locals.features) = 12

\* C10: from a classifier output row of k columns the raw probability is the
\* second entry when k = 2, the only entry when k = 1 and the last entry
\* when k >= 3.
C10_OutputColumnPriority ==
    \A c \in Calls :
        (Scored(c) /\ ~FallbackDue(c)) =>
            LET row == stubs[c].outcome.row
                k == Len(row)
                raw == result[c].locals.raw
            IN  /\ k = 2 => raw = row[2]
                /\ k = 1 => raw = row[1]
                /\ k >= 3 => raw = row[k]

\* C10 witness: a two-column row (0.70, 0.20) is scored 0.20, Low.
C10_Witness ==
    \E c \in Calls :
        /\ Scored(c)
        /\ model
        /\ ~stubs[c].outcome.raises
        /\ stubs[c].outcome.row = <<70, 20>>
        /\ result[c].locals.raw = 20
        /\ result[c].returned.risk_level = "Low"

\* C11: for every name, document number, address and document type,
\* predict.extract_features returns the vector main's extract_features
\* returns, with exactly one of elements 6-8 set for AADHAR, PAN and
\* PASSPORT-or-UTILITY and all three zero for any other type.
C11_SameFeaturesAsMain ==
    prediction.pc # "idle" =>
        LET a == prediction.args
            X == prediction.features
        IN  /\ X = extract_features(a.name, a.doc_number, a.address, a.doc_type)
            /\ X[6] = Bit(a.doc_type = "AADHAR")
            /\ X[7] = Bit(a.doc_type = "PAN")
            /\ X[8] = Bit(a.doc_type \in {"PASSPORT", "UTILITY"})

\* C13: for every probability p of [0,1] in whole percent steps,
\* predict.classify_risk(100 * p) is the risk level main's classify gives p.
C13_SameBucketsAsMain ==
    (prediction.pc = "returned" /\ prediction.stub.outcome.has_proba) =>
        LET p == prediction.stub.outcome.row[2]
        IN  /\ prediction.returned.fraud_probability = Percent * p
            /\ prediction.returned.fraud_risk = classify(p)

\* C12: any two verify calls that have taken their verification ids hold
\* distinct ids.
C12_DistinctVerificationIds ==
    \A c1, c2 \in Calls :
        (c1 # c2 /\ Scored(c1) /\ Scored(c2)) => vid[c1] # vid[c2]

\* The audit records written by call c
RecordsOf(c) ==
    {NewLines[i] : i \in {j \in RecordsIn(NewLines) : NewLines[j].call = c}}

\* Each call enters the audit write once, on its way to returning, and only
\* with a risk level computed.
AuditAttemptedOnce ==
    \A c \in Calls :
        /\ audit_attempts[c] = IF pc[c] = "done" THEN 1 ELSE 0
        /\ audit_attempts[c] > 0 => result[c].returned.risk_level \in RiskLevels
        /\ Cardinality(RecordsOf(c)) <= 1
        /\ RecordsOf(c) # {} <=> (pc[c] = "done" /\ ~audit_error[c])

====
